---- MODULE Spec2Model ----
(***************************************************************************)
(* Camel-cards scoring (src/src/main.rs): hands of card labels are         *)
(* classified by Hand::new, ordered by sort_hands and scored by solution,  *)
(* with or without wildcards (J as joker).                                 *)
(*                                                                         *)
(* Panics are modelled as values: an operator that can panic returns the   *)
(* panic message instead of (or beside) its result, and the action that    *)
(* called it moves the run to pc = "panic".                                *)
(***************************************************************************)
EXTENDS Integers, Sequences, FiniteSets, TLC

(***************************************************************************)
(* Bounds of the model.                                                    *)
(***************************************************************************)
\* well-formed single hands range over the first NumLabels labels of LabelOrder
NumLabels == 6
\* longest label sequence handed to Hand::new
MaxLen == 6
\* longest multi-line input drawn from the pool of lines
MaxHands == 3

(***************************************************************************)
(* Values.                                                                 *)
(***************************************************************************)
NoPanic == "none"
InvalidCardRank == "Invalid card rank"
HandsAreEqual == "Hands are equal"
IndexOutOfBounds == "index out of bounds"
SliceOutOfRange == "range end index out of range for slice"
UnwrapOnNone == "called Option::unwrap() on a None value"

Ordering == {"Less", "Equal", "Greater"}

\* i32::cmp
Cmp(x, y) == IF x < y THEN "Less" ELSE IF x = y THEN "Equal" ELSE "Greater"

HandType == <<"HighCard", "Pair", "TwoPair", "ThreeOfAKind", "FullHouse",
              "FourOfAKind", "FiveOfAKind">>

HandType_to_ordinal(t) ==
    CASE t = "HighCard" -> 0
      [] t = "Pair" -> 1
      [] t = "TwoPair" -> 2
      [] t = "ThreeOfAKind" -> 3
      [] t = "FullHouse" -> 4
      [] t = "FourOfAKind" -> 5
      [] t = "FiveOfAKind" -> 6

CardRank == {"Two", "Three", "Four", "Five", "Six", "Seven", "Eight", "Nine",
             "Ten", "JackOrJoker", "Queen", "King", "Ace"}

\* CardRank::from_str; the panic of the last arm is the value InvalidCardRank
CardRank_from_str(s) ==
    CASE s = "2" -> "Two"
      [] s = "3" -> "Three"
      [] s = "4" -> "Four"
      [] s = "5" -> "Five"
      [] s = "6" -> "Six"
      [] s = "7" -> "Seven"
      [] s = "8" -> "Eight"
      [] s = "9" -> "Nine"
      [] s = "T" -> "Ten"
      [] s = "J" -> "JackOrJoker"
      [] s = "Q" -> "Queen"
      [] s = "K" -> "King"
      [] s = "A" -> "Ace"
      [] OTHER -> InvalidCardRank

\* mutant of JackOrdinal: J keeps its standard ordinal with wildcards
JackOrdinalStandard(wildcards_enabled) == 10

\* line 75: the ordinal of JackOrJoker
JackOrdinal(wildcards_enabled) == IF wildcards_enabled THEN 0 ELSE 10

CardRank_to_ordinal(r, wildcards_enabled) ==
    CASE r = "Two" -> 1
      [] r = "Three" -> 2
      [] r = "Four" -> 3
      [] r = "Five" -> 4
      [] r = "Six" -> 5
      [] r = "Seven" -> 6
      [] r = "Eight" -> 7
      [] r = "Nine" -> 8
      [] r = "Ten" -> 9
      [] r = "JackOrJoker" -> JackOrdinal(wildcards_enabled)
      [] r = "Queen" -> 11
      [] r = "King" -> 12
      [] r = "Ace" -> 13

(***************************************************************************)
(* slice::sort_by on a slice of at most 20 elements is an insertion sort   *)
(* (insertion_sort_shift_left): element i is compared with the elements    *)
(* of the sorted prefix from its right end until one is not greater.       *)
(* The elements are named by their index 1..n in the unsorted slice and    *)
(* cmp[<<a, b>>] is the closure's result on elements a and b: an Ordering, *)
(* or the message of the panic it raises.                                  *)
(***************************************************************************)
RECURSIVE insert_tail(_, _, _, _)
insert_tail(v, tmp, j, cmp) ==
    IF j = 0
    THEN [v |-> <<tmp>> \o v, panic |-> NoPanic]
    ELSE LET c == cmp[<<tmp, v[j]>>]
         IN  IF c \notin Ordering
             THEN [v |-> v, panic |-> c]
             ELSE IF c = "Less"
             THEN insert_tail(v, tmp, j - 1, cmp)
             ELSE [v |-> SubSeq(v, 1, j) \o <<tmp>> \o SubSeq(v, j + 1, Len(v)),
                   panic |-> NoPanic]

RECURSIVE insertion_sort_shift_left(_, _, _, _)
insertion_sort_shift_left(v, i, n, cmp) ==
    IF i > n
    THEN [v |-> v, panic |-> NoPanic]
    ELSE LET r == insert_tail(v, i, Len(v), cmp)
         IN  IF r.panic # NoPanic
             THEN r
             ELSE insertion_sort_shift_left(r.v, i + 1, n, cmp)

\* the sorted order of the indices 1..n, or the panic of a comparison
sort_by(n, cmp) ==
    IF n < 2
    THEN [v |-> IF n = 0 THEN <<>> ELSE <<1>>, panic |-> NoPanic]
    ELSE insertion_sort_shift_left(<<1>>, 2, n, cmp)

\* Vec::reverse
Reverse(s) == [i \in 1..Len(s) |-> s[Len(s) + 1 - i]]

(***************************************************************************)
(* Hand::new                                                               *)
(***************************************************************************)
\* lines 95-99: the count of every label of cards
CountCards(cards) ==
    [c \in {cards[i] : i \in DOMAIN cards} |->
        Cardinality({i \in DOMAIN cards : cards[i] = c})]

\* the orders in which HashMap::iter can yield the keys of a map
RECURSIVE IterOrders(_)
IterOrders(keys) ==
    IF keys = {}
    THEN {<<>>}
    ELSE UNION {{<<k>> \o o : o \in IterOrders(keys \ {k})} : k \in keys}

\* mutant of MaxLoop: the first label met that is not J is kept, whatever
\* the counts of the labels met after it
RECURSIVE MaxLoopFirst(_, _, _, _)
MaxLoopFirst(cards_mapped, order, i, acc) ==
    IF i > Len(order)
    THEN acc
    ELSE LET card == order[i]
             count == cards_mapped[card]
         IN  IF acc.max_count = 0 /\ card # "J"
             THEN MaxLoopFirst(cards_mapped, order, i + 1,
                               [max_count |-> count, max_card |-> card])
             ELSE MaxLoopFirst(cards_mapped, order, i + 1, acc)

\* lines 102-109: the loop over cards_mapped.iter(), from position i of order
RECURSIVE MaxLoop(_, _, _, _)
MaxLoop(cards_mapped, order, i, acc) ==
    IF i > Len(order)
    THEN acc
    ELSE LET card == order[i]
             count == cards_mapped[card]
         IN  IF count > acc.max_count /\ card # "J"
             THEN MaxLoop(cards_mapped, order, i + 1,
                          [max_count |-> count, max_card |-> card])
             ELSE MaxLoop(cards_mapped, order, i + 1, acc)

\* the values of (max_count, max_card) the loop can end with
MaxChoices(cards_mapped) ==
    {MaxLoop(cards_mapped, order, 1, [max_count |-> 0, max_card |-> "A"]) :
        order \in IterOrders(DOMAIN cards_mapped)}

\* line 110: *cards_mapped.entry(max_card).or_insert(0) += max_count
AddMax(cards_mapped, m) ==
    [c \in DOMAIN cards_mapped \cup {m.max_card} |->
        IF c = m.max_card
        THEN (IF c \in DOMAIN cards_mapped THEN cards_mapped[c] ELSE 0) + m.max_count
        ELSE cards_mapped[c]]

\* line 111: cards_mapped.remove("J")
RemoveJ(cards_mapped) ==
    [c \in DOMAIN cards_mapped \ {"J"} |-> cards_mapped[c]]

\* lines 113-117: every J of cards_for_sorting becomes max_card
Substitute(cards, max_card) ==
    [i \in DOMAIN cards |-> IF cards[i] = "J" THEN max_card ELSE cards[i]]

\* lines 127-138: the closure of sort_cards on two labels
CompareCards(a, b, cards_mapped) ==
    IF a \notin DOMAIN cards_mapped \/ b \notin DOMAIN cards_mapped
    THEN UnwrapOnNone
    ELSE IF cards_mapped[a] = cards_mapped[b]
    THEN IF CardRank_from_str(a) = InvalidCardRank
            \/ CardRank_from_str(b) = InvalidCardRank
         THEN InvalidCardRank
         ELSE Cmp(CardRank_to_ordinal(CardRank_from_str(a), FALSE),
                  CardRank_to_ordinal(CardRank_from_str(b), FALSE))
    ELSE Cmp(cards_mapped[a], cards_mapped[b])

\* Hand::sort_cards: cards_sorted, or the panic of the sort
sort_cards(cards_for_sorting, cards_mapped) ==
    LET n == Len(cards_for_sorting)
        cmp == [p \in (1..n) \X (1..n) |->
                   CompareCards(cards_for_sorting[p[1]], cards_for_sorting[p[2]],
                                cards_mapped)]
        r == sort_by(n, cmp)
    IN  [cards_sorted |-> IF r.panic = NoPanic
                          THEN Reverse([i \in 1..n |-> cards_for_sorting[r.v[i]]])
                          ELSE <<>>,
         panic |-> r.panic]

\* cards_sorted[lo..hi].iter().all(|x| x == cards_sorted[at]), 0-based as in
\* the source: "true", "false", or the panic of the slice
AllEqual(cards_sorted, lo, hi, at) ==
    IF hi > Len(cards_sorted)
    THEN SliceOutOfRange
    ELSE IF \A i \in (lo + 1)..hi : cards_sorted[i] = cards_sorted[at + 1]
    THEN "true"
    ELSE "false"

\* a && b, b evaluated only when a is true
AndThen(a, b) == IF a = "true" THEN b ELSE a

is_five_of_a_kind(cs) == AllEqual(cs, 0, Len(cs), 0)

is_four_of_a_kind(cs) == AllEqual(cs, 0, 4, 0)

\* mutant of is_full_house: the pair after the three is not looked at
is_full_house_three_only(cs) == AllEqual(cs, 0, 3, 0)

is_full_house(cs) == AndThen(AllEqual(cs, 0, 3, 0), AllEqual(cs, 3, 5, 3))

is_three_of_a_kind(cs) == AllEqual(cs, 0, 3, 0)

is_two_pair(cs) == AndThen(AllEqual(cs, 0, 2, 0), AllEqual(cs, 2, 4, 2))

is_pair(cs) == AllEqual(cs, 0, 2, 0)

\* Hand::get_hand_type: the chain of tests, stopped by the first panic
Decide(test, type, rest) ==
    IF test = "true" THEN [hand_type |-> type, panic |-> NoPanic]
    ELSE IF test = "false" THEN rest
    ELSE [hand_type |-> "HighCard", panic |-> test]

get_hand_type(cs) ==
    Decide(is_five_of_a_kind(cs), "FiveOfAKind",
    Decide(is_four_of_a_kind(cs), "FourOfAKind",
    Decide(is_full_house(cs), "FullHouse",
    Decide(is_three_of_a_kind(cs), "ThreeOfAKind",
    Decide(is_two_pair(cs), "TwoPair",
    Decide(is_pair(cs), "Pair",
           [hand_type |-> "HighCard", panic |-> NoPanic]))))))

\* lines 101-118: the count map and the labels used for sorting, once the
\* wildcards are resolved with the loop's result m
Resolve(cards, wildcards_enabled, m) ==
    IF wildcards_enabled
    THEN [cards_mapped |-> RemoveJ(AddMax(CountCards(cards), m)),
          cards_for_sorting |-> Substitute(cards, m.max_card),
          max_card |-> m.max_card]
    ELSE [cards_mapped |-> CountCards(cards),
          cards_for_sorting |-> cards,
          max_card |-> "unset"]

\* Hand::new with the loop's result m: the hand, and the panic that kept it
\* from being returned (hand_type is HighCard until get_hand_type sets it)
Hand_new(cards, bid, wildcards_enabled, m) ==
    LET r == Resolve(cards, wildcards_enabled, m)
        s == sort_cards(r.cards_for_sorting, r.cards_mapped)
        t == IF s.panic = NoPanic
             THEN get_hand_type(s.cards_sorted)
             ELSE [hand_type |-> "HighCard", panic |-> s.panic]
    IN  [hand |-> [cards |-> cards,
                   cards_mapped |-> r.cards_mapped,
                   bid |-> bid,
                   cards_sorted |-> s.cards_sorted,
                   hand_type |-> t.hand_type,
                   cards_for_sorting |-> r.cards_for_sorting,
                   max_card |-> r.max_card],
         panic |-> t.panic]

\* the results Hand::new can have, over the iteration orders of cards_mapped
Hand_new_results(cards, bid, wildcards_enabled) ==
    IF wildcards_enabled
    THEN {Hand_new(cards, bid, TRUE, m) : m \in MaxChoices(CountCards(cards))}
    ELSE {Hand_new(cards, bid, FALSE, [max_count |-> 0, max_card |-> "A"])}

(***************************************************************************)
(* sort_hands and solution                                                 *)
(***************************************************************************)
\* mutant of PositionalCompare: hands equal at every position compare Equal
RECURSIVE PositionalCompareTie(_, _, _, _)
PositionalCompareTie(a_cards, b_cards, i, wildcards_enabled) ==
    IF i > Len(a_cards)
    THEN "Equal"
    ELSE IF CardRank_from_str(a_cards[i]) = InvalidCardRank
    THEN InvalidCardRank
    ELSE IF i > Len(b_cards)
    THEN IndexOutOfBounds
    ELSE IF CardRank_from_str(b_cards[i]) = InvalidCardRank
    THEN InvalidCardRank
    ELSE LET a_ord == CardRank_to_ordinal(CardRank_from_str(a_cards[i]),
                                          wildcards_enabled)
             b_ord == CardRank_to_ordinal(CardRank_from_str(b_cards[i]),
                                          wildcards_enabled)
         IN  IF a_ord # b_ord
             THEN Cmp(a_ord, b_ord)
             ELSE PositionalCompareTie(a_cards, b_cards, i + 1, wildcards_enabled)

\* lines 199-207: the loop over the positions of a.cards, from position i
\* (1-based); b.cards[i] is indexed after a.cards[i] is converted
RECURSIVE PositionalCompare(_, _, _, _)
PositionalCompare(a_cards, b_cards, i, wildcards_enabled) ==
    IF i > Len(a_cards)
    THEN HandsAreEqual
    ELSE IF CardRank_from_str(a_cards[i]) = InvalidCardRank
    THEN InvalidCardRank
    ELSE IF i > Len(b_cards)
    THEN IndexOutOfBounds
    ELSE IF CardRank_from_str(b_cards[i]) = InvalidCardRank
    THEN InvalidCardRank
    ELSE LET a_ord == CardRank_to_ordinal(CardRank_from_str(a_cards[i]),
                                          wildcards_enabled)
             b_ord == CardRank_to_ordinal(CardRank_from_str(b_cards[i]),
                                          wildcards_enabled)
         IN  IF a_ord # b_ord
             THEN Cmp(a_ord, b_ord)
             ELSE PositionalCompare(a_cards, b_cards, i + 1, wildcards_enabled)

\* mutant of CompareHands: the positions are compared on the labels the
\* wildcards resolved to
CompareHandsResolved(a, b, wildcards_enabled) ==
    IF HandType_to_ordinal(a.hand_type) = HandType_to_ordinal(b.hand_type)
    THEN PositionalCompare(a.cards_for_sorting, b.cards_for_sorting, 1,
                           wildcards_enabled)
    ELSE Cmp(HandType_to_ordinal(a.hand_type), HandType_to_ordinal(b.hand_type))

\* lines 197-211: the closure of sort_hands on two hands
CompareHands(a, b, wildcards_enabled) ==
    IF HandType_to_ordinal(a.hand_type) = HandType_to_ordinal(b.hand_type)
    THEN PositionalCompare(a.cards, b.cards, 1, wildcards_enabled)
    ELSE Cmp(HandType_to_ordinal(a.hand_type), HandType_to_ordinal(b.hand_type))

\* sort_hands: the hands in ascending order, or the panic of the sort
sort_hands(hs, wildcards_enabled) ==
    LET n == Len(hs)
        cmp == [p \in (1..n) \X (1..n) |->
                   CompareHands(hs[p[1]], hs[p[2]], wildcards_enabled)]
        r == sort_by(n, cmp)
    IN  [hands |-> IF r.panic = NoPanic THEN [i \in 1..n |-> hs[r.v[i]]] ELSE hs,
         panic |-> r.panic]

\* mutant of Winnings: the weakest hand gets rank 0
WinningsFromZero(bid, i) == bid * i

\* line 219: hand.bid as usize * (i + 1), i counted from 0
Winnings(bid, i) == bid * (i + 1)

\* lines 217-221: the sum of the winnings of hs[k..]
RECURSIVE SumWinnings(_, _)
SumWinnings(hs, k) ==
    IF k > Len(hs) THEN 0 ELSE Winnings(hs[k].bid, k - 1) + SumWinnings(hs, k + 1)

(***************************************************************************)
(* Inputs: the parsed lines of a file, a label sequence and a bid each.    *)
(***************************************************************************)
Cards(s1, s2, s3, s4, s5) == <<s1, s2, s3, s4, s5>>

Line(cards, bid) == [cards |-> cards, bid |-> bid]

\* example.txt, as given by the puzzle
Example ==
    << Line(Cards("3", "2", "T", "3", "K"), 765),
       Line(Cards("T", "5", "5", "J", "5"), 684),
       Line(Cards("K", "K", "6", "7", "7"), 28),
       Line(Cards("K", "T", "J", "J", "T"), 220),
       Line(Cards("Q", "Q", "Q", "J", "A"), 483) >>

\* the lines multi-line inputs are made of: two of the example (labels tied
\* for the maximum count, a wildcard that changes the category) and hands
\* whose order depends on the ordinal of J or on the label J becomes
Pool ==
    { Example[2], Example[3],
      Line(Cards("J", "K", "K", "K", "2"), 5),
      Line(Cards("2", "A", "A", "A", "A"), 0),
      Line(Cards("K", "K", "J", "2", "2"), 3),
      Line(Cards("K", "K", "9", "9", "9"), 11) }

PoolInputs == UNION { [1..n -> Pool] : n \in 0..MaxHands }

\* the labels single hands are made of, J and the default max_card A first
LabelOrder == <<"J", "A", "K", "T", "2", "3", "Q", "9", "8", "7", "6", "5", "4">>

Labels == {"2", "3", "4", "5", "6", "7", "8", "9", "T", "J", "Q", "K", "A"}

FirstLabels(n) == { LabelOrder[i] : i \in 1..(IF n < Len(LabelOrder) THEN n ELSE Len(LabelOrder)) }

WellFormed(cards) == Len(cards) = 5 /\ \A i \in 1..5 : cards[i] \in Labels

\* the labels malformed single hands are made of: the wildcard and two others
ShortLabels == {"J", "A", "K"}

\* a symbol that is no label
BadSymbol == "X"

\* hands of 5 labels, hands of 5 symbols with bad ones, hands of any length
SingleHands ==
    [1..5 -> FirstLabels(NumLabels)]
    \cup [1..5 -> ShortLabels \cup {BadSymbol}]
    \cup UNION { [1..n -> ShortLabels] : n \in 0..MaxLen }

SingleInputs == { <<Line(c, 765)>> : c \in SingleHands }

(***************************************************************************)
(* State.                                                                  *)
(***************************************************************************)
VARIABLES
    input,              \* the parsed lines of the file
    wildcards_enabled,  \* the mode solution is called with
    hands,              \* the Vec<Hand> of solution
    sum,                \* the total of solution
    pc,                 \* where solution is: get_hands, sort_hands, sum, done, panic
    panic,              \* the message of the panic that aborted the run
    run,                \* 1 in the first invocation of solution on this file and
                        \* mode, 2 in the second
    first               \* the hands and the total of the first invocation

vars == <<input, wildcards_enabled, hands, sum, pc, panic, run, first>>

Start(lines) == IF Len(lines) = 0 THEN "sort_hands" ELSE "get_hands"

InitWith(inputs) ==
    /\ input \in inputs
    /\ wildcards_enabled \in BOOLEAN
    /\ hands = <<>>
    /\ sum = 0
    /\ pc = Start(input)
    /\ panic = NoPanic
    /\ run = 1
    /\ first = [hands |-> <<>>, sum |-> 0]

Init == InitWith(PoolInputs \cup {Example})

InitHand == InitWith(SingleInputs)

\* get_hands, one line: Hand::new on the line's labels and bid
GetHands ==
    /\ pc = "get_hands"
    /\ LET line == input[Len(hands) + 1]
       IN  \E r \in Hand_new_results(line.cards, line.bid, wildcards_enabled) :
              IF r.panic = NoPanic
              THEN /\ hands' = Append(hands, r.hand)
                   /\ pc' = IF Len(hands) + 1 = Len(input) THEN "sort_hands" ELSE "get_hands"
                   /\ panic' = panic
              ELSE /\ hands' = hands
                   /\ pc' = "panic"
                   /\ panic' = r.panic
    /\ UNCHANGED <<input, wildcards_enabled, sum, run, first>>

\* sort_hands(&mut hands, wildcards_enabled)
SortHands ==
    /\ pc = "sort_hands"
    /\ LET r == sort_hands(hands, wildcards_enabled)
       IN  IF r.panic = NoPanic
           THEN /\ hands' = r.hands
                /\ pc' = "sum"
                /\ panic' = panic
           ELSE /\ hands' = hands
                /\ pc' = "panic"
                /\ panic' = r.panic
    /\ UNCHANGED <<input, wildcards_enabled, sum, run, first>>

\* the loop of solution and its return
Total ==
    /\ pc = "sum"
    /\ sum' = SumWinnings(hands, 1)
    /\ pc' = "done"
    /\ UNCHANGED <<input, wildcards_enabled, hands, panic, run, first>>

\* solution called again with the same file and mode: new hands, new maps
Rerun ==
    /\ pc = "done"
    /\ run = 1
    /\ run' = 2
    /\ first' = [hands |-> hands, sum |-> sum]
    /\ hands' = <<>>
    /\ sum' = 0
    /\ pc' = Start(input)
    /\ UNCHANGED <<input, wildcards_enabled, panic>>

Next == GetHands \/ SortHands \/ Total \/ Rerun

Spec == Init /\ [][Next]_vars

SpecHand == InitHand /\ [][Next]_vars

(***************************************************************************)
(* The rules the claims are stated with, written from the rules and not    *)
(* from the code: the strength order of the labels, the table of           *)
(* categories, the best category wildcards can give, the order of hands.   *)
(***************************************************************************)
StrengthOrder == <<"2", "3", "4", "5", "6", "7", "8", "9", "T", "J", "Q", "K", "A">>

\* J is 10th in standard mode and below every label with wildcards
RuleOrdinal(label, wild) ==
    IF wild /\ label = "J"
    THEN 0
    ELSE CHOOSE i \in DOMAIN StrengthOrder : StrengthOrder[i] = label

Categories == <<"HighCard", "Pair", "TwoPair", "ThreeOfAKind", "FullHouse",
                "FourOfAKind", "FiveOfAKind">>

CategoryOrdinal(t) == (CHOOSE i \in DOMAIN Categories : Categories[i] = t) - 1

Occurrences(cards, c) == Cardinality({i \in DOMAIN cards : cards[i] = c})

\* the counts of a count map, largest first
RECURSIVE CountsDescending(_)
CountsDescending(occ) ==
    IF DOMAIN occ = {}
    THEN <<>>
    ELSE LET c == CHOOSE x \in DOMAIN occ : \A y \in DOMAIN occ : occ[x] >= occ[y]
         IN  <<occ[c]>> \o CountsDescending([d \in DOMAIN occ \ {c} |-> occ[d]])

CategoryTable(counts) ==
    CASE counts = <<5>> -> "FiveOfAKind"
      [] counts = <<4, 1>> -> "FourOfAKind"
      [] counts = <<3, 2>> -> "FullHouse"
      [] counts = <<3, 1, 1>> -> "ThreeOfAKind"
      [] counts = <<2, 2, 1>> -> "TwoPair"
      [] counts = <<2, 1, 1, 1>> -> "Pair"
      [] counts = <<1, 1, 1, 1, 1>> -> "HighCard"
      [] OTHER -> "no category"

TableCategory(cards) ==
    CategoryTable(CountsDescending(
        [c \in {cards[i] : i \in DOMAIN cards} |-> Occurrences(cards, c)]))

\* cards with each J replaced by a label that is not J, in every way
Substitutions(cards) ==
    LET js == {i \in DOMAIN cards : cards[i] = "J"}
    IN  {[i \in DOMAIN cards |-> IF i \in js THEN f[i] ELSE cards[i]] :
            f \in [js -> Labels \ {"J"}]}

BestCategory(cards) ==
    LET reached == {TableCategory(c) : c \in Substitutions(cards)}
    IN  CHOOSE t \in reached :
            \A u \in reached : CategoryOrdinal(u) <= CategoryOrdinal(t)

RuleCategory(cards, wild) ==
    IF wild THEN BestCategory(cards) ELSE TableCategory(cards)

\* a is weaker than b, of categories ca and cb: a lower category, or the same
\* category and the lower ordinal at the first position where the original
\* labels differ
RuleWeaker(a, ca, b, cb, wild) ==
    \/ CategoryOrdinal(ca) < CategoryOrdinal(cb)
    \/ /\ ca = cb
       /\ \E i \in 1..5 :
             /\ \A k \in 1..(i - 1) : a[k] = b[k]
             /\ RuleOrdinal(a[i], wild) < RuleOrdinal(b[i], wild)

RECURSIVE SumOver(_, _)
SumOver(f, S) ==
    IF S = {} THEN 0 ELSE LET x == CHOOSE y \in S : TRUE IN f[x] + SumOver(f, S \ {x})

\* the sum of rank x stake, the rank of a hand being one more than the
\* number of hands weaker than it
RuleTotal(lines, wild) ==
    LET cat == [i \in DOMAIN lines |-> RuleCategory(lines[i].cards, wild)]
        rank == [i \in DOMAIN lines |->
                    1 + Cardinality({j \in DOMAIN lines :
                            RuleWeaker(lines[j].cards, cat[j],
                                       lines[i].cards, cat[i], wild)})]
    IN  SumOver([i \in DOMAIN lines |-> lines[i].bid * rank[i]], DOMAIN lines)

AllWellFormed(lines) == \A i \in DOMAIN lines : WellFormed(lines[i].cards)

Distinct(lines) ==
    \A i, j \in DOMAIN lines : i # j => lines[i].cards # lines[j].cards

HasBadSymbol(lines) ==
    \E i \in DOMAIN lines : \E k \in DOMAIN lines[i].cards :
        lines[i].cards[k] \notin Labels

\* get_hands has just returned the hands of the input, in the first run (the
\* second builds its hands from the same lines by the same step)
Constructed == run = 1 /\ pc = "sort_hands" /\ Len(hands) = Len(input)

(***************************************************************************)
(* Claims.  C1, C2, C7 and C8 are about solution on inputs of several      *)
(* lines (Spec); C3 to C6, C9 and C10 are about Hand::new on every single  *)
(* hand (SpecHand).                                                        *)
(***************************************************************************)

\* C1: on the example set solution never panics and returns 6440 with
\* wildcards disabled and 5905 with wildcards enabled, whatever order the
\* count maps are iterated in.
C1_ExampleTotals ==
    input = Example =>
        /\ pc # "panic"
        /\ pc = "done" => sum = IF wildcards_enabled THEN 5905 ELSE 6440

\* the example scored twice with wildcards, KK677 having resolved to two
\* different labels
C1_Witness ==
    /\ input = Example
    /\ wildcards_enabled
    /\ run = 2
    /\ pc = "done"
    /\ \E i, j \in 1..5 :
          /\ hands[i].cards = first.hands[j].cards
          /\ hands[i].max_card # first.hands[j].max_card

\* C2: for pairwise-distinct hands of 5 valid labels, in either mode,
\* solution never panics and returns the sum of rank x stake, the rank being
\* the 1-based position in the order by category first and then by the first
\* differing original label, under the ordinals of the mode.
C2_TotalIsRankTimesStake ==
    (AllWellFormed(input) /\ Distinct(input)) =>
        /\ pc # "panic"
        /\ pc = "done" => sum = RuleTotal(input, wildcards_enabled)

\* three hands scored with wildcards, a hand starting with J ranked below a
\* hand of the same category starting with 2
C2_Witness ==
    /\ pc = "done"
    /\ wildcards_enabled
    /\ Len(input) = 3
    /\ Distinct(input)
    /\ \E i, j \in 1..3 :
          /\ i < j
          /\ hands[i].hand_type = hands[j].hand_type
          /\ hands[i].cards[1] = "J"
          /\ hands[j].cards[1] = "2"

\* C3: with wildcards, Hand::new never panics on a hand of 5 valid labels and
\* stores the strongest category any replacement of its J's by other labels
\* gives, whichever of the labels tied for the maximum count it picked.
C3_WildcardCategoryIsBest ==
    (wildcards_enabled /\ AllWellFormed(input)) =>
        /\ pc = "panic" => Len(hands) = Len(input)
        /\ Constructed =>
              \A i \in 1..Len(hands) :
                  hands[i].hand_type = BestCategory(hands[i].cards)

\* KTJJ2 built with wildcards, its J's resolved to the weakest of the three
\* labels tied for the maximum count
C3_Witness ==
    /\ Constructed
    /\ wildcards_enabled
    /\ Len(hands) = 1
    /\ hands[1].cards = <<"K", "T", "J", "J", "2">>
    /\ hands[1].max_card = "2"
    /\ hands[1].hand_type = "ThreeOfAKind"

\* C4: in standard mode, Hand::new never panics on a hand of 5 valid labels
\* and stores the category the table gives for the descending counts of its
\* labels, which no permutation of the labels changes.
C4_StandardCategoryIsTable ==
    (~wildcards_enabled /\ AllWellFormed(input)) =>
        /\ pc = "panic" => Len(hands) = Len(input)
        /\ Constructed =>
              \A i \in 1..Len(hands) :
                  hands[i].hand_type = TableCategory(hands[i].cards)

\* a full house whose labels are not grouped, built in standard mode
C4_Witness ==
    /\ Constructed
    /\ ~wildcards_enabled
    /\ Len(hands) = 1
    /\ hands[1].cards = <<"K", "A", "A", "K", "A">>
    /\ hands[1].hand_type = "FullHouse"

\* C5: an input with a symbol that is no label aborts with the invalid-label
\* panic and never gets to a total.
C5_BadSymbolAborts ==
    HasBadSymbol(input) =>
        /\ pc \notin {"sum", "done"}
        /\ pc = "panic" => panic = InvalidCardRank

\* C6: Hand::new returns no hand for a label sequence whose length is not 5.
C6_LengthFiveOnly ==
    \A i \in 1..Len(hands) : Len(hands[i].cards) = 5

C8_EqualHandsAbort ==
    (AllWellFormed(input) /\ ~Distinct(input)) =>
        /\ pc \notin {"sum", "done"}
        /\ pc = "panic" => panic = HandsAreEqual

\* the sort aborted on two equal hands that another hand separates
C8_Witness ==
    /\ pc = "panic"
    /\ panic = HandsAreEqual
    /\ Len(input) = 3
    /\ input[1].cards = input[3].cards
    /\ input[2].cards # input[1].cards

\* C9: with wildcards, the count map of a hand of 5 valid labels has no entry
\* for J, its counts sum to 5, and each is the number of occurrences of its
\* label in the resolved hand.
C9_ResolvedCounts ==
    (wildcards_enabled /\ AllWellFormed(input)) =>
        \A i \in 1..Len(hands) :
            LET m == hands[i].cards_mapped
            IN  /\ "J" \notin DOMAIN m
                /\ SumOver(m, DOMAIN m) = 5
                /\ \A c \in DOMAIN m :
                      m[c] = Occurrences(hands[i].cards_for_sorting, c)

\* C10: with wildcards, the label substituted for J is never J, and two
\* constructions of the same hand substitute the same label.
C10_SameSubstitute ==
    wildcards_enabled =>
        \A i \in 1..Len(hands) : \A j \in 1..Len(first.hands) :
            (WellFormed(hands[i].cards) /\ hands[i].cards = first.hands[j].cards) =>
                /\ hands[i].max_card # "J"
                /\ hands[i].max_card = first.hands[j].max_card
                /\ hands[i].cards_for_sorting = first.hands[j].cards_for_sorting

====
